---- MODULE Spec2Model ----
(***************************************************************************)
(* Model of compartment-rs: swc_reader (src/src/swc_reader.rs) followed by *)
(* Compartments::from_sorted_nodes (src/src/compartments.rs).              *)
(*                                                                         *)
(* A file is the sequence of its non-comment lines; a line is the record   *)
(* of its seven parsed fields.  Coordinates are fixed-point numbers in     *)
(* thousandths, radii are whole numbers (the writer prints them with `{}`, *)
(* which is exact).  Every line has its seven fields and every field       *)
(* parses (a line that does not makes the source panic in `unwrap`).       *)
(* Parent fields are -1 or an identifier, and identifiers stay far below   *)
(* 2^63, so the `as u64` and `as i64` casts of the source are the identity *)
(* on every value used here.  The log (warn!, info!) is modelled only as   *)
(* far as the count of "Cycle detected" warnings.                          *)
(***************************************************************************)
EXTENDS Integers, Sequences, FiniteSets

\* ---------------------------------------------------------------- bounds
MaxRecs == 3        \* most data lines in an input file
MaxId == 2          \* identifiers in input files are 0..MaxId
MaxLoopRecs == 3    \* the same two bounds for the files the termination of
MaxLoopId == 1      \* the traversal loop is checked on

\* ------------------------------------------------------- program constants
NoParentInFile == -1    \* the file's "no parent" value
NoParentMarker == 0     \* what the parser stores for it
DefaultRadius == 1      \* replaces a zero radius
CustomCode == 7         \* code written for StructureIdentifier::Custom

VARIABLES
    file,             \* data lines of the file at read_path
    emit_warnings,    \* Option<bool>
    strict,           \* Option<bool>
    write_path,       \* Option<String>
    pc,               \* "call" | "bfs" | "done" | "built"
    nodes_vec,        \* parsed records, in file order
    queue,            \* VecDeque<u64> of the traversal
    visited,          \* HashSet<u64> of the traversal
    sorted_node_ids,  \* visiting order
    cycle_warnings,   \* number of "Cycle detected" warnings logged
    result,           \* what swc_reader returned
    written,          \* data lines of the file at write_path (<<>> if none)
    components,       \* Compartments.components built from result
    first,            \* result of the first call, kept when the output is read back
    pass              \* 1: first call, 2: call on the written file

vars == <<file, emit_warnings, strict, write_path, pc, nodes_vec, queue,
          visited, sorted_node_ids, cycle_warnings, result, written, components,
          first, pass>>

\* ------------------------------------------------------------ Option<T>
None == [is_some |-> FALSE]
Some(v) == [is_some |-> TRUE, val |-> v]
UnwrapOr(o, d) == IF o.is_some THEN o.val ELSE d

\* ------------------------------------------------------- HashMap<u64, Vec>
EmptyMap == [k \in {} |-> <<>>]

MapPushReplacing(m, k, v) ==
    [x \in (DOMAIN m) \cup {k} |-> IF x = k THEN <<v>> ELSE m[x]]

\* map.entry(k).or_default().push(v)
MapPush(m, k, v) ==
    [x \in (DOMAIN m) \cup {k} |->
        IF x = k THEN (IF k \in DOMAIN m THEN Append(m[k], v) ELSE <<v>>)
                 ELSE m[x]]

\* map.insert(k, v): a later insert replaces an earlier one
MapInsert(m, k, v) ==
    [x \in (DOMAIN m) \cup {k} |-> IF x = k THEN v ELSE m[x]]

\* ------------------------------------------------- StructureIdentifier
StructureIdentifierFrom(v) ==
    CASE v = 0 -> "Undefined"
      [] v = 1 -> "Soma"
      [] v = 2 -> "Axon"
      [] v = 3 -> "BasalDendrite"
      [] v = 4 -> "ApicalDendrite"
      [] v = 5 -> "ForkPoint"
      [] v = 6 -> "EndPoint"
      [] OTHER -> "Custom"

StructureCode(s) ==
    CASE s = "Undefined" -> 0
      [] s = "Soma" -> 1
      [] s = "Axon" -> 2
      [] s = "BasalDendrite" -> 3
      [] s = "ApicalDendrite" -> 4
      [] s = "ForkPoint" -> 5
      [] s = "EndPoint" -> 6
      [] OTHER -> CustomCode

\* ------------------------------------------------------------- parsing
ParseParent(parent_id_raw) ==
    IF parent_id_raw = NoParentInFile THEN NoParentMarker ELSE parent_id_raw

ParseLine(line) ==
    [node_id |-> line.id,
     structured_identifier |-> StructureIdentifierFrom(line.type),
     x_pos |-> line.x, y_pos |-> line.y, z_pos |-> line.z,
     radius |-> line.radius,
     parent_id |-> ParseParent(line.parent)]

ZeroRadiusRejectedOnlyEndPoint(node, emit, strict_) ==
    /\ node.radius = 0
    /\ UnwrapOr(emit, TRUE)
    /\ node.structured_identifier = "EndPoint"
    /\ UnwrapOr(strict_, FALSE)

\* the closure's early return for one parsed record
ZeroRadiusRejected(node, emit, strict_) ==
    /\ node.radius = 0
    /\ UnwrapOr(emit, TRUE)
    /\ node.structured_identifier # "EndPoint"
    /\ UnwrapOr(strict_, FALSE)

ErrZeroRadius == "Zero-radius for non-endpoint"
ErrNoRoot == "No root node found (parent_id == 0)"

ParseLines(lines, emit, strict_) ==
    LET nodes == [i \in 1..Len(lines) |-> ParseLine(lines[i])]
    IN  IF \E i \in 1..Len(lines) : ZeroRadiusRejected(nodes[i], emit, strict_)
        THEN [ok |-> FALSE, nodes |-> <<>>]
        ELSE [ok |-> TRUE, nodes |-> nodes]


\* ------------------------------------------------- lookup maps and root
\* nodes_by_id: collecting (node_id, node) pairs keeps the last record of an id
NodesById(nodes) ==
    [id \in {nodes[i].node_id : i \in DOMAIN nodes} |->
        LET last == CHOOSE i \in DOMAIN nodes :
                        /\ nodes[i].node_id = id
                        /\ \A j \in DOMAIN nodes : nodes[j].node_id = id => j <= i
        IN  nodes[last]]

RECURSIVE ChildrenFrom(_, _, _)
ChildrenFrom(i, nodes, m) ==
    IF i > Len(nodes) THEN m
    ELSE ChildrenFrom(i + 1, nodes, MapPush(m, nodes[i].parent_id, nodes[i].node_id))

\* children: parent_id -> node_ids, in file order
Children(nodes) == ChildrenFrom(1, nodes, EmptyMap)

IsRootCandidate(n) == n.parent_id = NoParentMarker

HasRoot(nodes) == \E i \in DOMAIN nodes : IsRootCandidate(nodes[i])

\* nodes_vec.iter().find(..): the first candidate in file order
FindRoot(nodes) ==
    nodes[CHOOSE i \in DOMAIN nodes :
            /\ IsRootCandidate(nodes[i])
            /\ \A j \in DOMAIN nodes : IsRootCandidate(nodes[j]) => i <= j]

\* ------------------------------------------------------------ traversal
\* the test at the head of the loop body
AlreadyVisitedNever(node_id, visited_) == FALSE
AlreadyVisited(node_id, visited_) == node_id \in visited_

RECURSIVE PushChildren(_, _, _)
PushChildren(q, child_ids, visited_) ==
    IF child_ids = <<>> THEN q
    ELSE PushChildren(IF Head(child_ids) \notin visited_
                        THEN Append(q, Head(child_ids)) ELSE q,
                      Tail(child_ids), visited_)

\* ------------------------------------------------------------ remapping
RECURSIVE OldToNewFrom(_, _, _)
OldToNewFrom(i, sorted, m) ==
    IF i > Len(sorted) THEN m
    ELSE OldToNewFrom(i + 1, sorted, MapInsert(m, sorted[i], i - 1))

OldToNewId(sorted) == OldToNewFrom(1, sorted, EmptyMap)

RemapParent(parent_id, new_id, old_to_new_id) ==
    IF parent_id = NoParentMarker THEN new_id
    ELSE IF parent_id \in DOMAIN old_to_new_id THEN old_to_new_id[parent_id]
    ELSE 0

FixRadius(radius) == IF radius = 0 THEN DefaultRadius ELSE radius

RemapNode(old_id, nodes_by_id, old_to_new_id) ==
    LET node == nodes_by_id[old_id]
        new_id == old_to_new_id[old_id]
    IN  [node EXCEPT !.node_id = new_id,
                     !.parent_id = RemapParent(node.parent_id, new_id, old_to_new_id),
                     !.radius = FixRadius(node.radius)]

RECURSIVE RemapFrom(_, _, _, _, _)
RemapFrom(i, sorted, nodes_by_id, old_to_new_id, acc) ==
    IF i > Len(sorted) THEN acc
    ELSE LET node == RemapNode(sorted[i], nodes_by_id, old_to_new_id)
         IN  RemapFrom(i + 1, sorted, nodes_by_id, old_to_new_id,
                 [nodes |-> Append(acc.nodes, node),
                  parent_child_map |->
                      MapPush(acc.parent_child_map, node.parent_id, node.node_id),
                  child_parent_map |->
                      MapPush(acc.child_parent_map, node.node_id, node.parent_id)])

Remap(sorted, nodes) ==
    RemapFrom(1, sorted, NodesById(nodes), OldToNewId(sorted),
              [nodes |-> <<>>, parent_child_map |-> EmptyMap,
               child_parent_map |-> EmptyMap])

\* --------------------------------------------------------------- writing
\* `{:.2}` on a coordinate in thousandths: the nearest hundredth (a tie to even)
Round2(v) ==
    LET a == IF v < 0 THEN -v ELSE v
        r == a % 10
        down == a - r
        q == IF r < 5 THEN down
             ELSE IF r > 5 THEN down + 10
             ELSE IF (down \div 10) % 2 = 0 THEN down ELSE down + 10
    IN  IF v < 0 THEN -q ELSE q

WrittenParent(node) ==
    IF node.parent_id = node.node_id THEN NoParentInFile ELSE node.parent_id

WriteLine(node) ==
    [id |-> node.node_id,
     type |-> StructureCode(node.structured_identifier),
     x |-> Round2(node.x_pos), y |-> Round2(node.y_pos), z |-> Round2(node.z_pos),
     radius |-> node.radius,
     parent |-> WrittenParent(node)]

WriteLines(remapped_nodes) ==
    [i \in 1..Len(remapped_nodes) |-> WriteLine(remapped_nodes[i])]

\* ------------------------------------------------------------- results
NoResult == [status |-> "None", err |-> "", nodes |-> <<>>,
             parent_child_map |-> EmptyMap, child_parent_map |-> EmptyMap]
ErrResult(msg) == [NoResult EXCEPT !.status = "Err", !.err = msg]
OkResult(r) == [status |-> "Ok", err |-> "", nodes |-> r.nodes,
                parent_child_map |-> r.parent_child_map,
                child_parent_map |-> r.child_parent_map]


\* -------------------------------------------------- from_sorted_nodes
square(x) == x * x

\* f64::sqrt on the fixed-point grid: exact on perfect squares, otherwise
\* cut to the grid
Sqrt(n) == CHOOSE r \in 0..n : r * r <= n /\ (r + 1) * (r + 1) > n

compute_length(curr, other) ==
    LET x_diff == square(curr.x_pos - other.x_pos)
        y_diff == square(curr.y_pos - other.y_pos)
        z_diff == square(curr.z_pos - other.z_pos)
    IN  Sqrt(x_diff + y_diff + z_diff)

RECURSIVE NodeIdToIdxFrom(_, _, _)
NodeIdToIdxFrom(i, sorted_nodes, m) ==
    IF i > Len(sorted_nodes) THEN m
    ELSE NodeIdToIdxFrom(i + 1, sorted_nodes,
                         MapInsert(m, sorted_nodes[i].node_id, i - 1))

\* node_id -> 0-based position in sorted_nodes
NodeIdToIdx(sorted_nodes) == NodeIdToIdxFrom(1, sorted_nodes, EmptyMap)

\* map.get(k).cloned().unwrap_or_default()
MapGetOrDefault(m, k) == IF k \in DOMAIN m THEN m[k] ELSE <<>>

DummyRoot ==
    [name |-> [text |-> "Dummy Root", number |-> 0, soma |-> FALSE],
     idx |-> 0, parent_idxs |-> <<>>, children_idxs |-> <<>>,
     length |-> 0, diam |-> 0]

\* length of the compartment of `node`
LengthFromParent(node, sorted_nodes, node_id_to_idx) ==
    IF node.parent_id = 0 THEN 0
    ELSE compute_length(node, sorted_nodes[node_id_to_idx[node.parent_id] + 1])

\* the compartment pushed in iteration i (0-based) of the loop, when
\* `len` compartments have been pushed before it
MakeCompartment(i, len, sorted_nodes, parent_child_map, child_parent_map) ==
    LET node == sorted_nodes[i + 1]
    IN  [name |-> [text |-> "Compartment", number |-> i + 1, soma |-> (i = 0)],
         idx |-> len,
         parent_idxs |-> MapGetOrDefault(child_parent_map, node.node_id),
         children_idxs |-> MapGetOrDefault(parent_child_map, node.node_id),
         length |-> LengthFromParent(node, sorted_nodes, NodeIdToIdx(sorted_nodes)),
         diam |-> node.radius * 2]

RECURSIVE FromSortedNodesFrom(_, _, _, _, _)
FromSortedNodesFrom(i, comps, sorted_nodes, parent_child_map, child_parent_map) ==
    IF i >= Len(sorted_nodes) THEN comps
    ELSE FromSortedNodesFrom(i + 1,
            Append(comps, MakeCompartment(i, Len(comps), sorted_nodes,
                                          parent_child_map, child_parent_map)),
            sorted_nodes, parent_child_map, child_parent_map)

\* components[k + 1] here is components[k] of the source
from_sorted_nodes(sorted_nodes, parent_child_map, child_parent_map) ==
    FromSortedNodesFrom(0, <<DummyRoot>>, sorted_nodes,
                        parent_child_map, child_parent_map)

\* ------------------------------------------------------------- inputs
SeqsUpTo(S, n) == UNION {[1..k -> S] : k \in 0..n}

\* every identifier and every parent reference up to max_id, one geometry
LinesUpTo(max_id) ==
    {[id |-> i, type |-> 3, x |-> 0, y |-> 0, z |-> 0, radius |-> 1, parent |-> p] :
        i \in 0..max_id, p \in (0..max_id) \cup {NoParentInFile}}

TopologyLines == LinesUpTo(MaxId)

\* type code, radius and position of a line
Geometries ==
    { [type |-> 1, radius |-> 2, x |-> 0,  y |-> 0,  z |-> 0],
      [type |-> 6, radius |-> 0, x |-> 3,  y |-> 4,  z |-> 0],
      [type |-> 9, radius |-> 0, x |-> 12, y |-> 16, z |-> 0] }

\* a chain 1 <- 2 <- 3 ..., every geometry
ChainLine(k, g) ==
    [id |-> k, type |-> g.type, x |-> g.x, y |-> g.y, z |-> g.z,
     radius |-> g.radius, parent |-> IF k = 1 THEN NoParentInFile ELSE k - 1]

GeometryFiles ==
    {[k \in DOMAIN gs |-> ChainLine(k, gs[k])] : gs \in SeqsUpTo(Geometries, MaxRecs)}

OptBool == {None, Some(TRUE), Some(FALSE)}
OptPath == {None, Some("out.swc")}

\* ------------------------------------------------------ state machine
\* swc_reader is about to be called for the first time
Start ==
    /\ pc = "call"
    /\ nodes_vec = <<>>
    /\ queue = <<>>
    /\ visited = {}
    /\ sorted_node_ids = <<>>
    /\ cycle_warnings = 0
    /\ result = NoResult
    /\ written = None
    /\ components = <<>>
    /\ first = NoResult
    /\ pass = 1

Init ==
    /\ \/ /\ file \in SeqsUpTo(TopologyLines, MaxRecs)
          /\ emit_warnings = None
          /\ strict = None
          /\ write_path = Some("out.swc")
       \/ /\ file \in GeometryFiles
          /\ emit_warnings \in OptBool
          /\ strict \in OptBool
          /\ write_path \in OptPath
    /\ Start

\* the inputs of the traversal alone: identifiers and parent references
InitLoop ==
    /\ file \in SeqsUpTo(LinesUpTo(MaxLoopId), MaxLoopRecs)
    /\ emit_warnings = None
    /\ strict = None
    /\ write_path = None
    /\ Start

\* swc_reader up to the start of the traversal loop
Parse ==
    /\ pc = "call"
    /\ LET p == ParseLines(file, emit_warnings, strict)
       IN  IF ~p.ok
           THEN /\ result' = ErrResult(ErrZeroRadius)
                /\ pc' = "done"
                /\ UNCHANGED <<nodes_vec, queue>>
           ELSE IF ~HasRoot(p.nodes)
           THEN /\ result' = ErrResult(ErrNoRoot)
                /\ pc' = "done"
                /\ nodes_vec' = p.nodes
                /\ UNCHANGED queue
           ELSE /\ nodes_vec' = p.nodes
                /\ queue' = <<FindRoot(p.nodes).node_id>>
                /\ pc' = "bfs"
                /\ UNCHANGED result
    /\ UNCHANGED <<file, emit_warnings, strict, write_path, visited,
                   sorted_node_ids, cycle_warnings, written, components, first,
                   pass>>

\* one iteration of `while let Some(node_id) = queue.pop_front()`
BfsStep ==
    /\ pc = "bfs"
    /\ queue # <<>>
    /\ LET node_id == Head(queue)
           children == Children(nodes_vec)
       IN  IF AlreadyVisited(node_id, visited)
           THEN /\ cycle_warnings' = cycle_warnings + 1
                /\ queue' = Tail(queue)
                /\ UNCHANGED <<visited, sorted_node_ids>>
           ELSE /\ visited' = visited \cup {node_id}
                /\ UNCHANGED cycle_warnings
                /\ sorted_node_ids' = Append(sorted_node_ids, node_id)
                /\ queue' = PushChildren(Tail(queue),
                                         MapGetOrDefault(children, node_id),
                                         visited \cup {node_id})
    /\ UNCHANGED <<file, emit_warnings, strict, write_path, pc, nodes_vec,
                   result, written, components, first, pass>>

\* swc_reader from the end of the loop: remap, write, return
RemapAndWrite ==
    /\ pc = "bfs"
    /\ queue = <<>>
    /\ LET r == Remap(sorted_node_ids, nodes_vec)
       IN  /\ result' = OkResult(r)
           /\ written' = IF write_path.is_some THEN Some(WriteLines(r.nodes))
                         ELSE written
    /\ pc' = "done"
    /\ UNCHANGED <<file, emit_warnings, strict, write_path, nodes_vec, queue,
                   visited, sorted_node_ids, cycle_warnings, components, first,
                   pass>>

\* Compartments::from_sorted_nodes on what swc_reader returned
BuildCompartments ==
    /\ pc = "done"
    /\ result.status = "Ok"
    /\ components' = from_sorted_nodes(result.nodes, result.parent_child_map,
                                       result.child_parent_map)
    /\ pc' = "built"
    /\ UNCHANGED <<file, emit_warnings, strict, write_path, nodes_vec, queue,
                   visited, sorted_node_ids, cycle_warnings, result, written,
                   first, pass>>

\* swc_reader called again, on the file it wrote
ReadBack ==
    /\ pc = "built"
    /\ pass = 1
    /\ written.is_some
    /\ file' = written.val
    /\ first' = result
    /\ pass' = 2
    /\ pc' = "call"
    /\ nodes_vec' = <<>>
    /\ queue' = <<>>
    /\ visited' = {}
    /\ sorted_node_ids' = <<>>
    /\ cycle_warnings' = 0
    /\ result' = NoResult
    /\ components' = <<>>
    /\ UNCHANGED <<emit_warnings, strict, write_path, written>>

Next == Parse \/ BfsStep \/ RemapAndWrite \/ BuildCompartments \/ ReadBack

Spec == Init /\ [][Next]_vars

\* one call of swc_reader
SwcReader == Parse \/ BfsStep \/ RemapAndWrite

\* one call, in which a started traversal loop keeps iterating: the code is
\* synchronous and nothing suspends it
FairSpec == InitLoop /\ [][SwcReader]_vars /\ WF_vars(BfsStep)


\* =================================================================
\* Properties
\* =================================================================
Returned == pc \in {"done", "built"}
ReturnedOk == Returned /\ result.status = "Ok"

Range(s) == {s[i] : i \in DOMAIN s}
NoDuplicates(s) == \A i, j \in DOMAIN s : s[i] = s[j] => i = j

\* what the file says, before any translation of the parent field
UsesNoParent(line) == line.parent = NoParentInFile
UniqueIds(f) == \A i, j \in DOMAIN f : f[i].id = f[j].id => i = j
\* identifiers are unique and every parent field is "no parent" or the
\* identifier of another line
WellFormed(f) ==
    /\ UniqueIds(f)
    /\ \A i \in DOMAIN f :
         UsesNoParent(f[i]) \/ \E j \in DOMAIN f : j # i /\ f[j].id = f[i].parent
FirstNoParentLine(f) ==
    f[CHOOSE i \in DOMAIN f :
        /\ UsesNoParent(f[i])
        /\ \A j \in DOMAIN f : UsesNoParent(f[j]) => i <= j]
\* well formed, one root line, and no line has the identifier 0
PlainTree(f) ==
    /\ WellFormed(f)
    /\ Cardinality({i \in DOMAIN f : UsesNoParent(f[i])}) = 1
    /\ \A i \in DOMAIN f : f[i].id # 0
LineOf(f, id) == f[CHOOSE i \in DOMAIN f : f[i].id = id]

RECURSIVE ReachableFrom(_, _)
\* identifiers reachable from the set S along the file's parent -> child edges
ReachableFrom(S, f) ==
    LET T == S \cup {f[i].id : i \in {j \in DOMAIN f :
                                        ~UsesNoParent(f[j]) /\ f[j].parent \in S}}
    IN  IF T = S THEN S ELSE ReachableFrom(T, f)

HasZeroRadiusNonEndPoint(f) ==
    \E i \in DOMAIN f :
        f[i].radius = 0 /\ StructureIdentifierFrom(f[i].type) # "EndPoint"

\* ------------------------------------------------------------------ C1
\* C1 (as claimed): when the file written by a successful call is read
\* again, the second call succeeds and returns the same number of records,
\* the same identifier, parent identifier and radius for every record, and
\* the same parent->children and child->parents maps as the first call.
C1_RoundTrip ==
    (pass = 2 /\ Returned) =>
        /\ result.status = "Ok"
        /\ Len(result.nodes) = Len(first.nodes)
        /\ \A i \in 1..Len(first.nodes) :
             /\ result.nodes[i].node_id = first.nodes[i].node_id
             /\ result.nodes[i].parent_id = first.nodes[i].parent_id
             /\ result.nodes[i].radius = first.nodes[i].radius
        /\ result.parent_child_map = first.parent_child_map
        /\ result.child_parent_map = first.child_parent_map

\* ------------------------------------------------------------------ C2
\* C2 (as claimed): with strict = true, whatever emit_warnings is, an input
\* holding a zero-radius record that is no end point makes the call return
\* an error, and no node list or maps.
C2_StrictRejectsWhateverEmit ==
    (Returned /\ strict = Some(TRUE) /\ HasZeroRadiusNonEndPoint(file)) =>
        /\ result.status = "Err"
        /\ result.nodes = <<>>
        /\ result.parent_child_map = EmptyMap
        /\ result.child_parent_map = EmptyMap

\* C2 (amended): with strict = true and emit_warnings true or left unset, an
\* input holding a zero-radius record that is no end point makes the call
\* return the zero-radius error, and no node list or maps.
C2_StrictRejection ==
    (pc # "call" /\ strict = Some(TRUE) /\ UnwrapOr(emit_warnings, TRUE)
       /\ HasZeroRadiusNonEndPoint(file)) =>
        /\ result.status = "Err"
        /\ result.err = ErrZeroRadius
        /\ result.nodes = <<>>
        /\ result.parent_child_map = EmptyMap
        /\ result.child_parent_map = EmptyMap

C2_Witness ==
    /\ pc = "done"
    /\ strict = Some(TRUE)
    /\ emit_warnings = None
    /\ HasZeroRadiusNonEndPoint(file)
    /\ Len(file) = MaxRecs
    /\ file[1].radius # 0
    /\ result.status = "Err"

\* ------------------------------------------------------------------ C3
\* C3 (as claimed): on a well-formed input that passes the zero-radius
\* check, the call fails with the no-root error exactly when no line has the
\* parent field -1 (a line whose parent is a real identifier, such as the
\* identifier 0 of another line, is no root candidate).
C3_NoRootExactly ==
    (Returned /\ WellFormed(file)
       /\ ParseLines(file, emit_warnings, strict).ok) =>
        ((result.status = "Err" /\ result.err = ErrNoRoot)
            <=> ~ \E i \in DOMAIN file : UsesNoParent(file[i]))

\* ------------------------------------------------------------------ C4
\* C4 (as claimed): when the call succeeds on a well-formed input, the
\* record at position 0 is the one made from the first line whose parent
\* field is -1, its new identifier is 0 and its parent is itself.
C4_RootInvariant ==
    (ReturnedOk /\ pass = 1 /\ WellFormed(file)) =>
        /\ \E i \in DOMAIN file : UsesNoParent(file[i])
        /\ sorted_node_ids[1] = FirstNoParentLine(file).id
        /\ result.nodes[1].node_id = 0
        /\ result.nodes[1].parent_id = result.nodes[1].node_id

\* ------------------------------------------------------------------ C5
\* C5 (as claimed): when the call succeeds on a well-formed input, the
\* returned records are exactly the input nodes reachable from the root
\* along parent -> child edges, each once, and the record at position i has
\* new identifier i.
C5_DensityReachability ==
    (ReturnedOk /\ pass = 1 /\ WellFormed(file)) =>
        /\ Len(result.nodes) = Len(sorted_node_ids)
        /\ NoDuplicates(sorted_node_ids)
        /\ Range(sorted_node_ids) = ReachableFrom({sorted_node_ids[1]}, file)
        /\ \A i \in DOMAIN result.nodes : result.nodes[i].node_id = i - 1

\* ------------------------------------------------------------------ C6
\* C6: whatever the input (cycles among the parent references, repeated
\* identifiers), no identifier is ever appended twice to the visiting
\* order, the traversal loop is left only with an empty queue and towards a
\* returned result (never an error), and a started loop reaches the empty
\* queue.
C6_CycleTolerance ==
    /\ [](NoDuplicates(sorted_node_ids))
    /\ [][pc = "bfs" =>
            \/ pc' = "bfs"
            \/ (queue = <<>> /\ pc' = "done" /\ result'.status = "Ok")]_vars
    /\ ((pc = "bfs") ~> (pc = "bfs" /\ queue = <<>>))

C6_Witness ==
    /\ pc = "done"
    /\ result.status = "Ok"
    /\ cycle_warnings > 0
    /\ ~UniqueIds(file)
    /\ \E i, j \in DOMAIN file :
         i # j /\ file[i].parent = file[j].id /\ file[j].parent = file[i].id

\* ------------------------------------------------------------------ C7
\* C7 (as claimed): when the call succeeds on a well-formed input with one
\* root line, every returned record but the one at position 0 has as parent
\* the new identifier of its original parent, which is smaller than its own
\* new identifier; so only the root refers to itself.
C7_TopologicalOrder ==
    (ReturnedOk /\ pass = 1 /\ WellFormed(file)
       /\ Cardinality({i \in DOMAIN file : UsesNoParent(file[i])}) = 1) =>
        \A i \in 2..Len(result.nodes) :
            LET orig == LineOf(file, sorted_node_ids[i])
            IN  /\ orig.parent \in Range(sorted_node_ids)
                /\ result.nodes[i].parent_id = OldToNewId(sorted_node_ids)[orig.parent]
                /\ result.nodes[i].parent_id < result.nodes[i].node_id

\* ------------------------------------------------------------------ C8
\* C8: in a returned result, parent_child_map[p] lists exactly (each once)
\* the new identifiers of the returned records whose remapped parent is p,
\* so key 0 lists the self-referencing root at position 0 beside the records
\* whose remapped parent is the root; child_parent_map[c] is exactly the
\* remapped parent of record c; and c is in parent_child_map[p] if and only
\* if p is in child_parent_map[c].
C8_AdjacencyMaps ==
    ReturnedOk =>
        LET nodes == result.nodes
            pcm == result.parent_child_map
            cpm == result.child_parent_map
            ids == {nodes[i].node_id : i \in DOMAIN nodes}
        IN  /\ DOMAIN pcm = {nodes[i].parent_id : i \in DOMAIN nodes}
            /\ \A p \in DOMAIN pcm :
                 /\ NoDuplicates(pcm[p])
                 /\ Range(pcm[p]) =
                      {nodes[i].node_id : i \in {j \in DOMAIN nodes : nodes[j].parent_id = p}}
            /\ nodes[1].parent_id = nodes[1].node_id =>
                 (0 \in DOMAIN pcm /\ pcm[0][1] = nodes[1].node_id)
            /\ DOMAIN cpm = ids
            /\ \A i \in DOMAIN nodes : cpm[nodes[i].node_id] = <<nodes[i].parent_id>>
            /\ \A p \in ids : \A c \in ids :
                 (p \in DOMAIN pcm /\ c \in Range(pcm[p])) <=> p \in Range(cpm[c])

C8_Witness ==
    /\ ReturnedOk
    /\ pass = 1
    /\ Len(result.nodes) >= 3
    /\ 0 \in DOMAIN result.parent_child_map
    /\ Len(result.parent_child_map[0]) = 2
    /\ Cardinality(DOMAIN result.parent_child_map) = 2

\* ------------------------------------------------------------------ C9
\* C9 (as claimed), on the records swc_reader returns for a tree whose
\* identifiers are all positive: from_sorted_nodes on N records returns N + 1
\* compartments, the dummy root at index 0 and the record at position i at
\* index i + 1; every entry of parent_idxs of a record other than the root
\* is the index of the compartment built from that record's parent, and
\* every entry of children_idxs (the root's entry for its own self-loop
\* aside) is the index of a compartment built from one of the record's
\* children.
C9_Linkage ==
    (pc = "built" /\ pass = 1 /\ PlainTree(file)) =>
        LET nodes == result.nodes
            N == Len(nodes)
            \* index in components (0-based) of the compartment of record id
            CompOf(id) == id + 1
        IN  /\ Len(components) = N + 1
            /\ components[1] = DummyRoot
            /\ \A i \in 1..N :
                 LET c == components[i + 1]
                 IN  /\ c.idx = i
                     /\ i > 1 => \A k \in DOMAIN c.parent_idxs :
                                    c.parent_idxs[k] = CompOf(nodes[i].parent_id)
                     /\ \A k \in DOMAIN c.children_idxs :
                          \/ (i = 1 /\ c.children_idxs[k] = nodes[1].node_id)
                          \/ /\ c.children_idxs[k] \in 1..N
                             /\ nodes[c.children_idxs[k]].parent_id = nodes[i].node_id

\* ----------------------------------------------------------------- C10
\* C10 (as claimed), on the records swc_reader returns for a tree whose
\* identifiers are all positive: the compartment of a record has length 0 if and only
\* if the record is the anatomical root or lies where its parent lies; every
\* other record, a direct child of the root included, gets the distance
\* between its position and its parent's.
C10_Length ==
    (pc = "built" /\ pass = 1 /\ PlainTree(file)) =>
        LET nodes == result.nodes
            Pos(n) == <<n.x_pos, n.y_pos, n.z_pos>>
        IN  \A i \in 1..Len(nodes) :
                LET parent == nodes[nodes[i].parent_id + 1]
                    c == components[i + 1]
                IN  /\ c.length = 0 <=> (i = 1 \/ Pos(nodes[i]) = Pos(parent))
                    /\ i > 1 => c.length = compute_length(nodes[i], parent)

====
